---------------------------- MODULE Spec2Model ----------------------------
(***************************************************************************)
(* Artwork validation and DPI normalization of board-co-supply-builder.    *)
(*                                                                         *)
(* The module models validateArtwork and resizeAndChangeDPI of             *)
(* src/utils/index.ts (the text of that file is the second half of         *)
(* src/src/utils/dpi-optimization-summary.test.ts, lines 145-634).         *)
(*                                                                         *)
(* Strings are TLA+ strings; the string functions the code uses            *)
(* (toLowerCase, toUpperCase, endsWith, startsWith, replace, split/pop)    *)
(* are computed character by character.  Numbers are integers; a quotient  *)
(* the code forms in floating point is kept as an exact fraction           *)
(* (numerator, denominator) until Math.round / Math.ceil is applied.       *)
(* A value that is `undefined` in the code is the integer Undefined for    *)
(* numbers and a distinguished record for objects.                         *)
(***************************************************************************)
EXTENDS Integers, Sequences, FiniteSets, TLC

(***************************************************************************)
(* Bounds of the model.                                                    *)
(***************************************************************************)
\* pixel widths of the uploaded rasters are 400*k and heights 350*k, k in 1..MaxDimSteps
MaxDimSteps == 4
\* a parsed document has 0..MaxPages pages
MaxPages == 2
\* the number of validateArtwork calls in flight at once
MaxCalls == 2
\* the number of createOrder calls made on one Squarespace client
MaxOrders == 2

(***************************************************************************)
(* Program constants.                                                      *)
(***************************************************************************)
REQUIRED_WIDTH == 1200
REQUIRED_HEIGHT == 1050
REQUIRED_RESOLUTION == 300
\* metadata.density ?? 96
DEFAULT_DPI == 96
\* 1 point = 1/72 inch
POINTS_PER_INCH == 72

\* the JavaScript value undefined, where a number is expected
Undefined == -1

(***************************************************************************)
(* String functions.                                                       *)
(***************************************************************************)
UpperChars == "ABCDEFGHIJKLMNOPQRSTUVWXYZ"
LowerChars == "abcdefghijklmnopqrstuvwxyz"

CharAt(s, i) == SubSeq(s, i, i)

\* position of the one-character string c in alphabet, 0 when absent
IndexIn(c, alphabet) ==
    IF \E i \in 1..Len(alphabet) : CharAt(alphabet, i) = c
    THEN CHOOSE i \in 1..Len(alphabet) : CharAt(alphabet, i) = c
    ELSE 0

RECURSIVE MapChars(_, _, _)
\* s with every character of alphabet `from` replaced by its counterpart in `to`
MapChars(s, from, to) ==
    IF Len(s) = 0 THEN ""
    ELSE LET c == CharAt(s, 1)
             k == IndexIn(c, from)
         IN (IF k = 0 THEN c ELSE CharAt(to, k)) \o MapChars(SubSeq(s, 2, Len(s)), from, to)

toLowerCase(s) == MapChars(s, UpperChars, LowerChars)
toUpperCase(s) == MapChars(s, LowerChars, UpperChars)

endsWith(s, suffix) ==
    /\ Len(s) >= Len(suffix)
    /\ SubSeq(s, Len(s) - Len(suffix) + 1, Len(s)) = suffix

startsWith(s, prefix) ==
    /\ Len(s) >= Len(prefix)
    /\ SubSeq(s, 1, Len(prefix)) = prefix

\* positions at which pat occurs in s
Occurrences(s, pat) ==
    {i \in 1..(Len(s) - Len(pat) + 1) : SubSeq(s, i, i + Len(pat) - 1) = pat}

Min(S) == CHOOSE m \in S : \A n \in S : m <= n

\* String.prototype.replace(pat, by) with a string pattern: the first occurrence only
replace(s, pat, by) ==
    IF Occurrences(s, pat) = {} THEN s
    ELSE LET i == Min(Occurrences(s, pat))
         IN SubSeq(s, 1, i - 1) \o by \o SubSeq(s, i + Len(pat), Len(s))

\* s.split(".").pop(): the text after the last ".", the whole string when there is none
splitPop(s) ==
    IF Occurrences(s, ".") = {} THEN s
    ELSE LET i == CHOOSE j \in Occurrences(s, ".") : \A k \in Occurrences(s, ".") : k <= j
         IN SubSeq(s, i + 1, Len(s))

(***************************************************************************)
(* Numeric functions on exact fractions num/den, den > 0, num >= 0.        *)
(***************************************************************************)
\* Math.round(num / den)
MathRound(num, den) == (2 * num + den) \div (2 * den)
\* Math.ceil(num / den)
MathCeil(num, den) == (num + den - 1) \div den


(***************************************************************************)
(* Byte buffers.  A buffer is described by what the decoders can get out   *)
(* of its bytes:                                                           *)
(*   kind    "empty"   no bytes at all                                     *)
(*           "garbage" bytes no decoder recognises                         *)
(*           "raster"  an image header sharp can read                      *)
(*           "pdf"     a document pdf-lib can parse                        *)
(*   width, height, density   what sharp's metadata() reports (raster)     *)
(*   pixels  "ok" when the pixel data can be decoded and re-encoded,       *)
(*           "damaged" when only the header is intact (raster)             *)
(*   pages   the page sizes in points, in page order (pdf)                 *)
(*   gen     how many times the program has re-encoded the bytes: 0 for    *)
(*           uploaded bytes; the encoder's output is a new buffer          *)
(* Two buffers hold the same bytes exactly when their descriptions agree.  *)
(***************************************************************************)
Buf(kind, width, height, density, pixels, pages, gen) ==
    [kind |-> kind, width |-> width, height |-> height, density |-> density,
     pixels |-> pixels, pages |-> pages, gen |-> gen]

\* Buffer.alloc(0)
EmptyBuffer == Buf("empty", Undefined, Undefined, Undefined, "none", <<>>, 0)
\* Buffer.from("invalid image data")
GarbageBuffer == Buf("garbage", Undefined, Undefined, Undefined, "none", <<>>, 0)
\* the value undefined, where a buffer is expected
NoBuffer == Buf("undefined", Undefined, Undefined, Undefined, "none", <<>>, 0)

\* uploaded bytes sharp reads as a w x h image tagged d ppi
RasterBuffer(w, h, d, px) == Buf("raster", w, h, d, px, <<>>, 0)
\* uploaded bytes pdf-lib parses into the given pages
PdfBuffer(pages) == Buf("pdf", Undefined, Undefined, Undefined, "none", pages, 0)

\* Buffer.prototype.equals: byte-wise comparison
BufferEquals(a, b) == a = b

(***************************************************************************)
(* sharp.                                                                  *)
(***************************************************************************)
\* sharp(buffer).metadata() rejects unless the header is readable
MetadataThrows(buffer) == buffer.kind # "raster"

NoMetadata == [width |-> Undefined, height |-> Undefined, density |-> Undefined]

\* sharp(buffer).metadata(), for a buffer on which it does not reject
Metadata(buffer) ==
    [width |-> buffer.width, height |-> buffer.height, density |-> buffer.density]

\* sharp(buffer).resize(w, h).withMetadata({density}).toBuffer() rejects
\* when the pixel data cannot be decoded
ResizeThrows(buffer) == buffer.kind # "raster" \/ buffer.pixels # "ok"

\* ResizeToBuffer that leaves the resolution tag of the input in place
ResizeToBuffer_KeepDensity(buffer, toWidth, toHeight, density) ==
    Buf("raster", toWidth, toHeight, buffer.density, "ok", <<>>, buffer.gen + 1)

\* sharp(buffer).resize(toWidth, toHeight).withMetadata({ density }).toBuffer()
ResizeToBuffer(buffer, toWidth, toHeight, density) ==
    Buf("raster", toWidth, toHeight, density, "ok", <<>>, buffer.gen + 1)

(***************************************************************************)
(* resizeAndChangeDPI (src/utils/index.ts).                                *)
(***************************************************************************)
\* currentDPI with 72 as the default
currentDPI_Default72(metadata) ==
    IF metadata.density = Undefined THEN 72 ELSE metadata.density

\* metadata.density ?? 96
currentDPI(metadata) ==
    IF metadata.density = Undefined THEN DEFAULT_DPI ELSE metadata.density

\* metadata.width ?? 0
imageWidth(metadata) == IF metadata.width = Undefined THEN 0 ELSE metadata.width

\* metadata.height ?? 0
imageHeight(metadata) == IF metadata.height = Undefined THEN 0 ELSE metadata.height

\* newWidth with the quotient truncated instead of rounded
newWidth_Truncated(metadata) == (imageWidth(metadata) * 300) \div currentDPI(metadata)

\* Math.round(imageWidth * scale), scale = 300 / currentDPI
newWidth(metadata) == MathRound(imageWidth(metadata) * 300, currentDPI(metadata))

\* newHeight with the scale factor left out
newHeight_Unscaled(metadata) == imageHeight(metadata)

\* newHeight that leaves images tagged below the default resolution unscaled
newHeight_NoScaleBelowDefault(metadata) ==
    IF currentDPI(metadata) < DEFAULT_DPI THEN imageHeight(metadata)
    ELSE MathRound(imageHeight(metadata) * 300, currentDPI(metadata))

\* Math.round(imageHeight * scale), scale = 300 / currentDPI
newHeight(metadata) == MathRound(imageHeight(metadata) * 300, currentDPI(metadata))

\* what the catch block of resizeAndChangeDPI returns
resizeCatch(fileBuffer) == fileBuffer

\* what resizeAndChangeDPI returns on width or height 0
resizeInvalidDimensions(fileBuffer) == fileBuffer

\* alreadyAtDPI with a strict comparison
alreadyAtDPI_Strict(dpi) == dpi > 300

\* whether currentDPI already meets the requirement
alreadyAtDPI(dpi) == dpi >= 300

\* resizeAndChangeDPI that re-encodes images that already are at 300 ppi
resizeAndChangeDPI_AlwaysReencode(fileBuffer) ==
    IF MetadataThrows(fileBuffer) THEN resizeCatch(fileBuffer)
    ELSE LET metadata == Metadata(fileBuffer)
         IN IF imageWidth(metadata) = 0 \/ imageHeight(metadata) = 0
            THEN resizeInvalidDimensions(fileBuffer)
            ELSE IF ResizeThrows(fileBuffer) THEN resizeCatch(fileBuffer)
            ELSE ResizeToBuffer(fileBuffer, newWidth(metadata), newHeight(metadata), 300)

resizeAndChangeDPI(fileBuffer) ==
    IF MetadataThrows(fileBuffer) THEN resizeCatch(fileBuffer)
    ELSE LET metadata == Metadata(fileBuffer)
         IN IF alreadyAtDPI(currentDPI(metadata)) THEN fileBuffer
            ELSE IF imageWidth(metadata) = 0 \/ imageHeight(metadata) = 0
                 THEN resizeInvalidDimensions(fileBuffer)
            ELSE IF ResizeThrows(fileBuffer) THEN resizeCatch(fileBuffer)
            ELSE ResizeToBuffer(fileBuffer, newWidth(metadata), newHeight(metadata), 300)

(***************************************************************************)
(* Classification of the upload (validateArtwork, before the handlers).    *)
(***************************************************************************)
acceptedTypes ==
    {"application/postscript", "image/vnd.adobe.photoshop", "application/pdf",
     "application/illustrator", "image/jpeg", "image/png", "image/webp", "image/tiff"}

imageExtensions == {".jpg", ".jpeg", ".png", ".webp", ".tiff", ".tif"}

\* file.type === "application/postscript" && file.name?.toLowerCase().endsWith(".ai")
isAIFile(file) ==
    file.type = "application/postscript" /\ endsWith(toLowerCase(file.name), ".ai")

\* hasImageExtension without toLowerCase
hasImageExtension_CaseSensitive(file) ==
    IF file.name = "" THEN FALSE
    ELSE \E ext \in imageExtensions : endsWith(file.name, ext)

\* file.name ? imageExtensions.some(ext => file.name.toLowerCase().endsWith(ext)) : false
hasImageExtension(file) ==
    IF file.name = "" THEN FALSE
    ELSE \E ext \in imageExtensions : endsWith(toLowerCase(file.name), ext)

isImageFile(file) ==
    \/ startsWith(file.type, "image/") /\ file.type # "image/vnd.adobe.photoshop"
    \/ hasImageExtension(file)

\* the guard of the early return "Invalid file format."
notAccepted(file) ==
    file.type \notin acceptedTypes /\ ~isAIFile(file) /\ ~hasImageExtension(file)

\* isDocument without the application/illustrator type
isDocument_NoIllustrator(file) ==
    isAIFile(file) \/ file.type = "application/pdf"

\* the guard of the PDF/AI handler
isDocument(file) ==
    isAIFile(file) \/ file.type = "application/illustrator" \/ file.type = "application/pdf"

\* the guard of the PSD handler
isPSD(file) == file.type = "image/vnd.adobe.photoshop"

\* Strategy with the image handler tried before the PSD handler
Strategy_ImageFirst(file) ==
    IF notAccepted(file) THEN "rejected"
    ELSE IF isDocument(file) THEN "document"
    ELSE IF isImageFile(file) THEN "commonRaster"
    ELSE IF isPSD(file) THEN "legacyRaster"
    ELSE "rejected"

\* the handler validateArtwork runs for the file: the early return, then the if / else-if chain
Strategy(file) ==
    IF notAccepted(file) THEN "rejected"
    ELSE IF isDocument(file) THEN "document"
    ELSE IF isPSD(file) THEN "legacyRaster"
    ELSE IF isImageFile(file) THEN "commonRaster"
    ELSE "rejected"

(***************************************************************************)
(* pdf-lib.                                                                *)
(***************************************************************************)
\* PDFDocument.load(buffer) rejects unless the bytes parse as a document
LoadThrows(buffer) == buffer.kind # "pdf"

\* pdfDoc.getPages(): the page sizes, [width, height] in points; an entry the
\* code finds undefined (pages[0] is typed PDFPage | undefined) is NoPage
getPages(buffer) == buffer.pages

(***************************************************************************)
(* Files and results.                                                      *)
(***************************************************************************)
File(type, name, content) == [type |-> type, name |-> name, content |-> content]

\* the value undefined, where a File is expected
NoFile == File("", "", NoBuffer)

\* new File([processedBuffer], "processed-artwork.jpg", { type: "image/jpeg" })
ProcessedFile(buffer) == File("image/jpeg", "processed-artwork.jpg", buffer)

\* `${n}` for a number that may be undefined
NumStr(n) == IF n = Undefined THEN "undefined" ELSE ToString(n)

\* `${w}x${h}px`
SizeStr(w, h) == NumStr(w) \o "x" \o NumStr(h) \o "px"

\* a ValidationResult; currentWidth, currentHeight, currentResolution and
\* processedFile are Undefined / NoFile when the code leaves them out
Result(valid, message, processed, cw, ch, cr, fileType, suggestions) ==
    [valid |-> valid, message |-> message, processedFile |-> processed,
     details |-> [currentWidth |-> cw, currentHeight |-> ch, currentResolution |-> cr,
                  requiredWidth |-> REQUIRED_WIDTH, requiredHeight |-> REQUIRED_HEIGHT,
                  requiredResolution |-> REQUIRED_RESOLUTION,
                  fileType |-> fileType, suggestions |-> suggestions]]

\* the value of `result` before validateArtwork has returned
NoResult ==
    [valid |-> FALSE, message |-> "", processedFile |-> NoFile,
     details |-> [currentWidth |-> Undefined, currentHeight |-> Undefined,
                  currentResolution |-> Undefined, requiredWidth |-> Undefined,
                  requiredHeight |-> Undefined, requiredResolution |-> Undefined,
                  fileType |-> "", suggestions |-> <<>>]]

\* file.type || "unknown"
typeOrUnknown(file) == IF file.type = "" THEN "unknown" ELSE file.type

formatSuggestions ==
    <<"Please provide your artwork in AI, PSD, PDF, or common image formats (JPG, PNG, etc.).",
      "If you have an Adobe Illustrator file, save it as .ai or PDF.",
      "For Photoshop files, save as .psd format.">>

\* InvalidFormatResult that reports the dimensions found in the file's header
InvalidFormatResult_WithDimensions(file) ==
    Result(FALSE, "Invalid file format.", NoFile, file.content.width, file.content.height,
           Undefined, typeOrUnknown(file), formatSuggestions)

\* the early return of validateArtwork
InvalidFormatResult(file) ==
    Result(FALSE, "Invalid file format.", NoFile, Undefined, Undefined, Undefined,
           typeOrUnknown(file), formatSuggestions)

\* the return after the if / else-if chain
UnsupportedFormatResult(file) ==
    Result(FALSE, "Unsupported file format.", NoFile, Undefined, Undefined, Undefined,
           typeOrUnknown(file), formatSuggestions)

\* the outermost catch
OuterCatchResult(file) ==
    Result(FALSE, "Error processing file.", NoFile, Undefined, Undefined, Undefined,
           typeOrUnknown(file),
           <<"An error occurred while processing your file.",
             "Please ensure your file is not corrupted.",
             "Try re-saving your file and upload again.">>)

\* Math.round(scale * 100), scale = Math.max(REQUIRED_WIDTH / w, REQUIRED_HEIGHT / h)
scalePercent(w, h) ==
    IF REQUIRED_WIDTH * h >= REQUIRED_HEIGHT * w
    THEN MathRound(REQUIRED_WIDTH * 100, w)
    ELSE MathRound(REQUIRED_HEIGHT * 100, h)

\* ceilScaled with the smaller of the two scale factors
ceilScaled_MinScale(n, w, h) ==
    IF REQUIRED_WIDTH * h >= REQUIRED_HEIGHT * w
    THEN MathCeil(n * REQUIRED_HEIGHT, h)
    ELSE MathCeil(n * REQUIRED_WIDTH, w)

\* Math.ceil(n * scale), scale = Math.max(REQUIRED_WIDTH / w, REQUIRED_HEIGHT / h)
ceilScaled(n, w, h) ==
    IF REQUIRED_WIDTH * h >= REQUIRED_HEIGHT * w
    THEN MathCeil(n * REQUIRED_WIDTH, w)
    ELSE MathCeil(n * REQUIRED_HEIGHT, h)

(***************************************************************************)
(* The inputs.                                                             *)
(***************************************************************************)
MediaTypes ==
    {"application/pdf", "application/postscript", "application/illustrator",
     "image/vnd.adobe.photoshop", "image/jpeg", "image/png", "image/webp",
     "image/tiff", "image/gif", "text/plain", ""}

FileNames ==
    {"", "x.ai", "x.AI", "a.jpg", "a.jpeg", "a.png", "A.PNG", "a.webp", "a.tiff",
     "a.tif", "a.gif", "a.txt", "png"}

RasterWidths == {Undefined, 1, 400} \cup {400 * k : k \in 1..MaxDimSteps}
RasterHeights == {Undefined, 300} \cup {350 * k : k \in 1..MaxDimSteps}
Densities == {Undefined, 72, 96, 150, 299, 300, 350}

RasterBuffers ==
    {RasterBuffer(w, h, d, px) :
        w \in RasterWidths, h \in RasterHeights, d \in Densities, px \in {"ok", "damaged"}}

\* page sizes in points: 288x252 is 4x3.5 in, 864x756 is 12x10.5 in, 287x251 falls short
PageSizes == {<<288, 252>>, <<864, 756>>, <<287, 251>>}

\* the value undefined, where a page is expected
NoPage == <<Undefined, Undefined>>

RECURSIVE SeqsUpTo(_, _)
\* the sequences over S of length at most n
SeqsUpTo(S, n) ==
    IF n = 0 THEN {<<>>}
    ELSE LET shorter == SeqsUpTo(S, n - 1)
         IN shorter \cup {Append(q, x) : q \in shorter, x \in S}

PdfBuffers == {PdfBuffer(pages) : pages \in SeqsUpTo(PageSizes \cup {NoPage}, MaxPages)}

Buffers == RasterBuffers \cup PdfBuffers \cup {EmptyBuffer, GarbageBuffer}

Files == {File(t, n, c) : t \in MediaTypes, n \in FileNames, c \in Buffers}

(***************************************************************************)
(* State.                                                                  *)
(*   file             the argument of validateArtwork                      *)
(*   pc               where the call stands, "done" once it has returned   *)
(*   strategy         the handler the call entered                         *)
(*   result           the ValidationResult returned                        *)
(*   pdfDoc, fileFormat, originalDPI, processedBuffer, wasProcessed,       *)
(*   processedFile, metadata     the locals of validateArtwork             *)
(*   normalizerCalled whether the call has invoked resizeAndChangeDPI      *)
(*   bytesRead        whether the call has read the file's bytes           *)
(*                    (file.arrayBuffer())                                 *)
(*   calls            the validateArtwork calls running concurrently       *)
(*   interleaved      whether one of them has run a step while another was *)
(*                    between its first step and its return                *)
(*   fnInput, fnOutput, fnpc     a direct call of resizeAndChangeDPI       *)
(*   now              Date.now(), in milliseconds                          *)
(*   requests         RateLimitTracker.requests of the Squarespace client  *)
(*   call             the createOrder call the client is serving: where it *)
(*                    stands, the attempt number, the fetches it has made  *)
(*                    and what it returned or threw                        *)
(*   ordersMade       the number of createOrder calls made on the client   *)
(*   inFlight         the createOrder calls one client serves concurrently *)
(*   fetchTimes       the times at which that client has called fetch      *)
(***************************************************************************)
VARIABLES file, pc, strategy, result, pdfDoc, fileFormat, originalDPI,
          processedBuffer, wasProcessed, processedFile, metadata, normalizerCalled,
          bytesRead, fnInput, fnOutput, fnpc, calls, interleaved,
          now, requests, call, ordersMade, inFlight, fetchTimes

locals == <<pdfDoc, fileFormat, originalDPI, processedBuffer, wasProcessed,
            processedFile, metadata, normalizerCalled, bytesRead>>
fnvars == <<fnInput, fnOutput, fnpc>>
concvars == <<calls, interleaved>>
sqvars == <<now, requests, call, ordersMade>>
sqconcvars == <<inFlight, fetchTimes>>
\* the state of the other specifications of this module
others == <<concvars, sqvars, sqconcvars>>
vars == <<file, pc, strategy, result, locals, fnvars, others>>

LocalsInit ==
    /\ pdfDoc = NoBuffer
    /\ fileFormat = ""
    /\ originalDPI = Undefined
    /\ processedBuffer = NoBuffer
    /\ wasProcessed = FALSE
    /\ processedFile = NoFile
    /\ metadata = NoMetadata
    /\ normalizerCalled = FALSE
    /\ bytesRead = FALSE

\* no concurrent calls are under way
ConcIdle ==
    /\ calls = <<>>
    /\ interleaved = FALSE

\* the value undefined, where a SquarespaceApiError is expected
NoError ==
    [name |-> "", message |-> "", status |-> Undefined, squarespaceError |-> "undefined",
     isRetryable |-> FALSE]

\* no createOrder call has been made
NoCall ==
    [pc |-> "idle", attempt |-> 0, wakeAt |-> 0, log |-> <<>>, response |-> "",
     error |-> NoError]

\* no Squarespace client exists
SqIdle ==
    /\ now = 0
    /\ requests = <<>>
    /\ call = NoCall
    /\ ordersMade = 0

\* no client serves concurrent createOrder calls
SqConcIdle ==
    /\ inFlight = <<>>
    /\ fetchTimes = <<>>

OthersIdle == ConcIdle /\ SqIdle /\ SqConcIdle

\* a call validateArtwork(file) is about to run
Init ==
    /\ file \in Files
    /\ pc = "start"
    /\ strategy = "none"
    /\ result = NoResult
    /\ LocalsInit
    /\ fnInput = NoBuffer
    /\ fnOutput = NoBuffer
    /\ fnpc = "idle"
    /\ OthersIdle

\* return r
Return(r) ==
    /\ result' = r
    /\ pc' = "done"

(***************************************************************************)
(* validateArtwork: the format check and the dispatch.                     *)
(***************************************************************************)
Classify ==
    /\ pc = "start"
    /\ strategy' = Strategy(file)
    /\ IF notAccepted(file) THEN Return(InvalidFormatResult(file))
       ELSE /\ pc' = Strategy(file)
            /\ result' = result
    /\ UNCHANGED <<file, locals, fnvars, others>>

\* no handler matched: the else branch and the return after the chain
Unsupported ==
    /\ pc = "rejected"
    /\ Return(UnsupportedFormatResult(file))
    /\ UNCHANGED <<file, strategy, locals, fnvars, others>>

(***************************************************************************)
(* validateArtwork: the PDF / AI handler.                                  *)
(***************************************************************************)
\* isAIFile ? "AI" : file.type
documentFileType(f) == IF isAIFile(f) THEN "AI" ELSE f.type

\* pointsToPixels with the quotient truncated instead of rounded
pointsToPixels_Truncated(points) == (points * REQUIRED_RESOLUTION) \div POINTS_PER_INCH

\* Math.round((points / 72) * REQUIRED_RESOLUTION)
pointsToPixels(points) == MathRound(points * REQUIRED_RESOLUTION, POINTS_PER_INCH)

NoPagesResult(f) ==
    Result(FALSE, "Document has no pages.", NoFile, Undefined, Undefined, Undefined,
           documentFileType(f),
           <<"Your document appears to be empty.",
             "Please ensure your artwork is on the first page.",
             "Try re-saving your document and upload again.">>)

\* FirstPageUnreadableResult with the result of the empty document
FirstPageUnreadableResult_AsEmpty(f) == NoPagesResult(f)

\* if (!page): the first page is undefined
FirstPageUnreadableResult(f) ==
    Result(FALSE, "Could not read first page.", NoFile, Undefined, Undefined, Undefined,
           documentFileType(f),
           <<"Your document appears to be corrupted.",
             "Try re-saving your document and upload again.">>)

DocumentTooSmallResult(f, w, h) ==
    Result(FALSE, "Invalid dimensions.", NoFile, w, h, Undefined, documentFileType(f),
           <<"Your artwork is too small. Current size: " \o SizeStr(w, h),
             "Required minimum size: " \o SizeStr(REQUIRED_WIDTH, REQUIRED_HEIGHT),
             "Try scaling your artwork by " \o NumStr(scalePercent(w, h))
                 \o "% to meet the minimum size requirement.",
             "For vector files (AI/PDF), you can safely scale the artwork without losing quality.">>)

DocumentValidResult(f, w, h) ==
    Result(TRUE, "File is valid.", NoFile, w, h, Undefined, documentFileType(f),
           <<"Your artwork meets all requirements!", "Current size: " \o SizeStr(w, h)>>)

\* await file.arrayBuffer(); await PDFDocument.load(buffer)
DocumentLoad ==
    /\ pc = "document"
    /\ bytesRead' = TRUE
    /\ IF LoadThrows(file.content)
       THEN /\ Return(OuterCatchResult(file))
            /\ UNCHANGED pdfDoc
       ELSE /\ pdfDoc' = file.content
            /\ pc' = "documentLoaded"
            /\ result' = result
    /\ UNCHANGED <<file, strategy, fileFormat, originalDPI, processedBuffer, wasProcessed,
                   processedFile, metadata, normalizerCalled, fnvars, others>>

\* the page count, the first page, its size and the size check
DocumentCheck ==
    /\ pc = "documentLoaded"
    /\ LET pages == getPages(pdfDoc)
       IN IF Len(pages) = 0 THEN Return(NoPagesResult(file))
          ELSE IF pages[1] = NoPage THEN Return(FirstPageUnreadableResult(file))
          ELSE LET widthInPixels == pointsToPixels(pages[1][1])
                   heightInPixels == pointsToPixels(pages[1][2])
               IN IF widthInPixels < REQUIRED_WIDTH \/ heightInPixels < REQUIRED_HEIGHT
                  THEN Return(DocumentTooSmallResult(file, widthInPixels, heightInPixels))
                  ELSE Return(DocumentValidResult(file, widthInPixels, heightInPixels))
    /\ UNCHANGED <<file, strategy, locals, fnvars, others>>

(***************************************************************************)
(* validateArtwork: the PSD handler.                                       *)
(***************************************************************************)
\* !n for a number that may be undefined
Falsy(n) == n = Undefined \/ n = 0

\* `${n || "unknown"}`
NumOrUnknown(n) == IF Falsy(n) THEN "unknown" ELSE ToString(n)

PsdUnreadableResult ==
    Result(FALSE, "Could not read dimensions.", NoFile, Undefined, Undefined, Undefined, "PSD",
           <<"Could not read the dimensions of your PSD file.",
             "Try re-saving your file and upload again.",
             "Ensure your PSD file is not corrupted.">>)

psdSizeIssues(m) ==
    IF m.width < REQUIRED_WIDTH \/ m.height < REQUIRED_HEIGHT
    THEN <<"Your artwork is too small. Current size: " \o SizeStr(m.width, m.height),
           "Required minimum size: " \o SizeStr(REQUIRED_WIDTH, REQUIRED_HEIGHT),
           "Try increasing the canvas size by " \o NumStr(scalePercent(m.width, m.height)) \o "%">>
    ELSE <<>>

\* psdResolutionIssues with the "at least" comparison of the image handler
psdResolutionIssues_AtLeast(m) ==
    IF m.density < REQUIRED_RESOLUTION
    THEN <<"Current resolution: " \o NumOrUnknown(m.density) \o " DPI",
           "Required resolution: " \o NumStr(REQUIRED_RESOLUTION) \o " DPI",
           "In Photoshop, go to Image > Image Size and set resolution to 300 DPI">>
    ELSE <<>>

psdResolutionIssues(m) ==
    IF m.density # REQUIRED_RESOLUTION
    THEN <<"Current resolution: " \o NumOrUnknown(m.density) \o " DPI",
           "Required resolution: " \o NumStr(REQUIRED_RESOLUTION) \o " DPI",
           "In Photoshop, go to Image > Image Size and set resolution to 300 DPI">>
    ELSE <<>>

\* PsdResult that reports the size issues alone when there are any
PsdResult_SizeFirst(m) ==
    LET issues == IF Len(psdSizeIssues(m)) > 0 THEN psdSizeIssues(m)
                  ELSE psdResolutionIssues(m)
    IN IF Len(issues) > 0
       THEN Result(FALSE, "Invalid dimensions or resolution.", NoFile,
                   m.width, m.height, m.density, "PSD", issues)
       ELSE Result(TRUE, "File is valid.", NoFile, m.width, m.height, m.density, "PSD",
                   <<"Your artwork meets all requirements!",
                     "Current size: " \o SizeStr(m.width, m.height),
                     "Current resolution: " \o NumStr(m.density) \o " DPI">>)

PsdResult(m) ==
    LET issues == psdSizeIssues(m) \o psdResolutionIssues(m)
    IN IF Len(issues) > 0
       THEN Result(FALSE, "Invalid dimensions or resolution.", NoFile,
                   m.width, m.height, m.density, "PSD", issues)
       ELSE Result(TRUE, "File is valid.", NoFile, m.width, m.height, m.density, "PSD",
                   <<"Your artwork meets all requirements!",
                     "Current size: " \o SizeStr(m.width, m.height),
                     "Current resolution: " \o NumStr(m.density) \o " DPI">>)

\* await file.arrayBuffer(); await sharp(Buffer.from(buffer)).metadata()
PsdMetadata ==
    /\ pc = "legacyRaster"
    /\ bytesRead' = TRUE
    /\ IF MetadataThrows(file.content)
       THEN /\ Return(OuterCatchResult(file))
            /\ UNCHANGED metadata
       ELSE /\ metadata' = Metadata(file.content)
            /\ pc' = "legacyRasterRead"
            /\ result' = result
    /\ UNCHANGED <<file, strategy, pdfDoc, fileFormat, originalDPI, processedBuffer,
                   wasProcessed, processedFile, normalizerCalled, fnvars, others>>

\* the dimension, size and resolution checks
PsdCheck ==
    /\ pc = "legacyRasterRead"
    /\ IF Falsy(metadata.width) \/ Falsy(metadata.height)
       THEN Return(PsdUnreadableResult)
       ELSE Return(PsdResult(metadata))
    /\ UNCHANGED <<file, strategy, locals, fnvars, others>>

(***************************************************************************)
(* validateArtwork: the image handler.                                     *)
(***************************************************************************)
\* file.type.replace("image/", "").toUpperCase(), replaced by the upper-cased
\* extension when it is empty or "UNKNOWN" and the name has an extension
displayFormat(f) ==
    LET fromType == toUpperCase(replace(f.type, "image/", ""))
        extension == toLowerCase(splitPop(f.name))
    IN IF (fromType = "" \/ fromType = "UNKNOWN") /\ extension # ""
       THEN toUpperCase(extension)
       ELSE fromType

\* the fileType of the inner catch
catchFileType(f) ==
    LET fromType == toUpperCase(replace(f.type, "image/", ""))
        fromName == toUpperCase(splitPop(f.name))
    IN IF fromType # "" THEN fromType
       ELSE IF fromName # "" THEN fromName
       ELSE "UNKNOWN"

\* the message of the error sharp rejects with
sharpErrorMessage(buffer) ==
    IF buffer.kind = "empty" THEN "Input Buffer is empty"
    ELSE IF buffer.kind = "raster" THEN "Input buffer has corrupt header"
    ELSE "Input buffer contains unsupported image format"

\* the message of the TypeError of undefined.equals(...)
typeErrorMessage == "undefined is not an object (evaluating 'processedBuffer.equals')"

\* the inner catch
ImageCatchResult(f, errorMessage) ==
    Result(FALSE, "Error processing image file.", NoFile, Undefined, Undefined, Undefined,
           catchFileType(f),
           <<errorMessage,
             "There was an error processing your image file.",
             "The file may be corrupted or in an unsupported format.",
             "Try re-saving your file in a different format like JPG or PNG.">>)

ImageUnreadableResult(format) ==
    Result(FALSE, "Could not read image dimensions.", NoFile, Undefined, Undefined, Undefined,
           format,
           <<"Could not read the dimensions of your image file.",
             "Try re-saving your file in a different format and upload again.",
             "Ensure your image file is not corrupted.">>)

imageSizeIssues(m) ==
    IF m.width < REQUIRED_WIDTH \/ m.height < REQUIRED_HEIGHT
    THEN <<"Your image is too small. Current size: " \o SizeStr(m.width, m.height),
           "Required minimum size: " \o SizeStr(REQUIRED_WIDTH, REQUIRED_HEIGHT),
           "Try resizing your image to "
               \o SizeStr(ceilScaled(m.width, m.width, m.height),
                          ceilScaled(m.height, m.width, m.height))
               \o " to meet the minimum requirements.">>
    ELSE <<>>

\* resolutionTooLow with the exact comparison of the PSD handler
resolutionTooLow_Exact(m) == m.density # REQUIRED_RESOLUTION

\* metadata.density && metadata.density < REQUIRED_RESOLUTION
resolutionTooLow(m) == ~Falsy(m.density) /\ m.density < REQUIRED_RESOLUTION

imageResolutionIssues(m) ==
    IF resolutionTooLow(m)
    THEN <<"Current resolution: " \o NumOrUnknown(m.density) \o " DPI",
           "Required resolution: " \o NumStr(REQUIRED_RESOLUTION) \o " DPI",
           "Consider using a higher resolution image or resample your image in an editing program.">>
    ELSE <<>>

\* NonEmpty that keeps every entry
NonEmpty_KeepAll(str) == TRUE

\* the test of filter(Boolean) on a string
NonEmpty(str) == str # ""

\* attachedFile that never attaches the file
attachedFile_Never(processed, pf) == NoFile

\* wasProcessed ? processedFile : undefined
attachedFile(processed, pf) == IF processed THEN pf ELSE NoFile

ImageResult(m, format, processed, pf, dpi) ==
    LET issues == imageSizeIssues(m) \o imageResolutionIssues(m)
    IN IF Len(issues) > 0
       THEN Result(FALSE, "Invalid dimensions or resolution.", attachedFile(processed, pf),
                   m.width, m.height, m.density, format, issues)
       ELSE Result(TRUE, "File is valid.", attachedFile(processed, pf),
                   m.width, m.height, m.density, format,
                   SelectSeq(<<"Your artwork meets all requirements!",
                               "Current size: " \o SizeStr(m.width, m.height),
                               IF ~Falsy(m.density)
                                   THEN "Current resolution: " \o NumStr(m.density) \o " DPI"
                                   ELSE "",
                               IF processed
                                   THEN "DPI was automatically updated from " \o NumStr(dpi)
                                            \o " to " \o NumStr(m.density)
                                   ELSE "">>,
                             NonEmpty))

\* await file.arrayBuffer(); the display format; await originalImg.metadata()
ImageMetadata ==
    /\ pc = "commonRaster"
    /\ bytesRead' = TRUE
    /\ fileFormat' = displayFormat(file)
    /\ IF MetadataThrows(file.content)
       THEN /\ Return(ImageCatchResult(file, sharpErrorMessage(file.content)))
            /\ UNCHANGED originalDPI
       ELSE /\ originalDPI' = currentDPI(Metadata(file.content))
            /\ pc' = "normalize"
            /\ result' = result
    /\ UNCHANGED <<file, strategy, pdfDoc, processedBuffer, wasProcessed, processedFile,
                   metadata, normalizerCalled, fnvars, others>>

\* ImageNormalize that writes the rescaled bytes back into the uploaded file
ImageNormalize_InPlace ==
    /\ pc = "normalize"
    /\ LET returned == resizeAndChangeDPI(file.content)
           processed == ~BufferEquals(returned, file.content)
       IN /\ processedBuffer' = returned
          /\ normalizerCalled' = TRUE
          /\ IF returned = NoBuffer
             THEN /\ Return(ImageCatchResult(file, typeErrorMessage))
                  /\ UNCHANGED <<file, wasProcessed, processedFile>>
             ELSE /\ wasProcessed' = processed
                  /\ processedFile' = IF processed THEN ProcessedFile(returned) ELSE NoFile
                  /\ file' = [file EXCEPT !.content = returned]
                  /\ pc' = "reread"
                  /\ result' = result
    /\ UNCHANGED <<strategy, pdfDoc, fileFormat, originalDPI, metadata, bytesRead,
                   fnvars, others>>

\* await resizeAndChangeDPI(originalBuffer); wasProcessed; processedFile
ImageNormalize ==
    /\ pc = "normalize"
    /\ LET returned == resizeAndChangeDPI(file.content)
           processed == ~BufferEquals(returned, file.content)
       IN /\ processedBuffer' = returned
          /\ normalizerCalled' = TRUE
          /\ IF returned = NoBuffer
             THEN /\ Return(ImageCatchResult(file, typeErrorMessage))
                  /\ UNCHANGED <<wasProcessed, processedFile>>
             ELSE /\ wasProcessed' = processed
                  /\ processedFile' = IF processed THEN ProcessedFile(returned) ELSE NoFile
                  /\ pc' = "reread"
                  /\ result' = result
    /\ UNCHANGED <<file, strategy, pdfDoc, fileFormat, originalDPI, metadata, bytesRead,
                   fnvars, others>>

\* await sharp(processedBuffer).metadata()
ImageReread ==
    /\ pc = "reread"
    /\ IF MetadataThrows(processedBuffer)
       THEN /\ Return(ImageCatchResult(file, sharpErrorMessage(processedBuffer)))
            /\ UNCHANGED metadata
       ELSE /\ metadata' = Metadata(processedBuffer)
            /\ pc' = "check"
            /\ result' = result
    /\ UNCHANGED <<file, strategy, pdfDoc, fileFormat, originalDPI, processedBuffer,
                   wasProcessed, processedFile, normalizerCalled, bytesRead,
                   fnvars, others>>

\* the dimension, size and resolution checks
ImageCheck ==
    /\ pc = "check"
    /\ IF Falsy(metadata.width) \/ Falsy(metadata.height)
       THEN Return(ImageUnreadableResult(fileFormat))
       ELSE Return(ImageResult(metadata, fileFormat, wasProcessed, processedFile, originalDPI))
    /\ UNCHANGED <<file, strategy, locals, fnvars, others>>

Next ==
    \/ Classify
    \/ Unsupported
    \/ DocumentLoad
    \/ DocumentCheck
    \/ PsdMetadata
    \/ PsdCheck
    \/ ImageMetadata
    \/ ImageNormalize
    \/ ImageReread
    \/ ImageCheck

Spec == Init /\ [][Next]_vars

(***************************************************************************)
(* A direct call resizeAndChangeDPI(fnInput), as the unit tests make it.   *)
(***************************************************************************)
FnInit ==
    /\ file = NoFile
    /\ pc = "idle"
    /\ strategy = "none"
    /\ result = NoResult
    /\ LocalsInit
    /\ fnInput \in Buffers
    /\ fnOutput = NoBuffer
    /\ fnpc = "call"
    /\ OthersIdle

CallResizeAndChangeDPI ==
    /\ fnpc = "call"
    /\ fnOutput' = resizeAndChangeDPI(fnInput)
    /\ fnpc' = "returned"
    /\ UNCHANGED <<file, pc, strategy, result, locals, fnInput, others>>

FnNext == CallResizeAndChangeDPI

FnSpec == FnInit /\ [][FnNext]_vars

(***************************************************************************)
(* Several calls of validateArtwork in flight at once.  A call is a record *)
(* of the argument, the position and the locals of one invocation; the     *)
(* module keeps no state outside the function body, so a call's step reads *)
(* and writes its own record only.                                         *)
(***************************************************************************)
\* the record of a call validateArtwork(f) that is about to run
NewCall(f) ==
    [file |-> f, pc |-> "start", strategy |-> "none", result |-> NoResult,
     pdfDoc |-> NoBuffer, fileFormat |-> "", originalDPI |-> Undefined,
     processedBuffer |-> NoBuffer, wasProcessed |-> FALSE, processedFile |-> NoFile,
     metadata |-> NoMetadata, normalizerCalled |-> FALSE, bytesRead |-> FALSE]

\* the call that Spec steps, as a record
ThisCall ==
    [file |-> file, pc |-> pc, strategy |-> strategy, result |-> result,
     pdfDoc |-> pdfDoc, fileFormat |-> fileFormat, originalDPI |-> originalDPI,
     processedBuffer |-> processedBuffer, wasProcessed |-> wasProcessed,
     processedFile |-> processedFile, metadata |-> metadata,
     normalizerCalled |-> normalizerCalled, bytesRead |-> bytesRead]

\* return r
Returning(st, r) == [st EXCEPT !.result = r, !.pc = "done"]

\* the image handler, from one await to the next
imageHandlerStep(st) ==
    CASE st.pc = "commonRaster" ->
            LET read == [st EXCEPT !.bytesRead = TRUE, !.fileFormat = displayFormat(st.file)]
            IN IF MetadataThrows(st.file.content)
               THEN Returning(read, ImageCatchResult(st.file, sharpErrorMessage(st.file.content)))
               ELSE [read EXCEPT !.originalDPI = currentDPI(Metadata(st.file.content)),
                                 !.pc = "normalize"]
      [] st.pc = "normalize" ->
            LET returned == resizeAndChangeDPI(st.file.content)
                processed == ~BufferEquals(returned, st.file.content)
                called == [st EXCEPT !.processedBuffer = returned, !.normalizerCalled = TRUE]
            IN IF returned = NoBuffer
               THEN Returning(called, ImageCatchResult(st.file, typeErrorMessage))
               ELSE [called EXCEPT !.wasProcessed = processed,
                                   !.processedFile = IF processed THEN ProcessedFile(returned)
                                                     ELSE NoFile,
                                   !.pc = "reread"]
      [] st.pc = "reread" ->
            IF MetadataThrows(st.processedBuffer)
            THEN Returning(st, ImageCatchResult(st.file, sharpErrorMessage(st.processedBuffer)))
            ELSE [st EXCEPT !.metadata = Metadata(st.processedBuffer), !.pc = "check"]
      [] st.pc = "check" ->
            IF Falsy(st.metadata.width) \/ Falsy(st.metadata.height)
            THEN Returning(st, ImageUnreadableResult(st.fileFormat))
            ELSE Returning(st, ImageResult(st.metadata, st.fileFormat, st.wasProcessed,
                                           st.processedFile, st.originalDPI))

\* the PDF / AI handler and the PSD handler, from one await to the next
documentOrPsdStep(st) ==
    CASE st.pc = "document" ->
            IF LoadThrows(st.file.content)
            THEN Returning([st EXCEPT !.bytesRead = TRUE], OuterCatchResult(st.file))
            ELSE [st EXCEPT !.bytesRead = TRUE, !.pdfDoc = st.file.content,
                            !.pc = "documentLoaded"]
      [] st.pc = "documentLoaded" ->
            LET pages == getPages(st.pdfDoc)
            IN IF Len(pages) = 0 THEN Returning(st, NoPagesResult(st.file))
               ELSE IF pages[1] = NoPage THEN Returning(st, FirstPageUnreadableResult(st.file))
               ELSE LET widthInPixels == pointsToPixels(pages[1][1])
                        heightInPixels == pointsToPixels(pages[1][2])
                    IN IF widthInPixels < REQUIRED_WIDTH \/ heightInPixels < REQUIRED_HEIGHT
                       THEN Returning(st, DocumentTooSmallResult(st.file, widthInPixels,
                                                                 heightInPixels))
                       ELSE Returning(st, DocumentValidResult(st.file, widthInPixels,
                                                              heightInPixels))
      [] st.pc = "legacyRaster" ->
            IF MetadataThrows(st.file.content)
            THEN Returning([st EXCEPT !.bytesRead = TRUE], OuterCatchResult(st.file))
            ELSE [st EXCEPT !.bytesRead = TRUE, !.metadata = Metadata(st.file.content),
                            !.pc = "legacyRasterRead"]
      [] st.pc = "legacyRasterRead" ->
            IF Falsy(st.metadata.width) \/ Falsy(st.metadata.height)
            THEN Returning(st, PsdUnreadableResult)
            ELSE Returning(st, PsdResult(st.metadata))

\* one step of a call: what Classify, Unsupported and the handlers' actions
\* do to the variables, done to the call's record
validateArtworkStep(st) ==
    CASE st.pc = "start" ->
            IF notAccepted(st.file)
            THEN Returning([st EXCEPT !.strategy = Strategy(st.file)],
                           InvalidFormatResult(st.file))
            ELSE [st EXCEPT !.strategy = Strategy(st.file), !.pc = Strategy(st.file)]
      [] st.pc = "rejected" -> Returning(st, UnsupportedFormatResult(st.file))
      [] st.pc \in {"document", "documentLoaded", "legacyRaster", "legacyRasterRead"} ->
            documentOrPsdStep(st)
      [] st.pc \in {"commonRaster", "normalize", "reread", "check"} -> imageHandlerStep(st)
      [] OTHER -> st

\* the files the concurrent callers upload
ConcurrentFiles ==
    {File("image/png", "a.png", RasterBuffer(400, 350, 72, "ok")),
     File("image/jpeg", "a.jpg", RasterBuffer(1600, 1400, 300, "ok")),
     File("image/png", "a.png", RasterBuffer(1200, 1050, 150, "damaged")),
     File("image/vnd.adobe.photoshop", "", RasterBuffer(1200, 1050, 96, "ok")),
     File("application/pdf", "", PdfBuffer(<<<<864, 756>>>>)),
     File("application/pdf", "", PdfBuffer(<<>>)),
     File("image/png", "a.png", GarbageBuffer),
     File("image/gif", "a.gif", RasterBuffer(1600, 1400, 300, "ok"))}

CallIds == 1..MaxCalls

\* MaxCalls callers have each invoked validateArtwork; none has run yet
ConcInit ==
    /\ file = NoFile
    /\ pc = "idle"
    /\ strategy = "none"
    /\ result = NoResult
    /\ LocalsInit
    /\ fnInput = NoBuffer
    /\ fnOutput = NoBuffer
    /\ fnpc = "idle"
    /\ calls \in [CallIds -> {NewCall(f) : f \in ConcurrentFiles}]
    /\ interleaved = FALSE
    /\ SqIdle
    /\ SqConcIdle

\* another call is between its first step and its return
OtherUnderWay(c) == \E d \in CallIds \ {c} : calls[d].pc \notin {"start", "done"}

\* ConcStep for a handler that keeps metadata in a module-level variable
ConcStep_SharedMetadata(c) ==
    /\ calls[c].pc # "done"
    /\ LET st == validateArtworkStep(calls[c])
       IN calls' = [d \in CallIds |->
                       IF d = c THEN st ELSE [calls[d] EXCEPT !.metadata = st.metadata]]
    /\ interleaved' = (interleaved \/ OtherUnderWay(c))
    /\ UNCHANGED <<file, pc, strategy, result, locals, fnvars, sqvars, sqconcvars>>

\* the event loop resumes call c and runs it to its next await or its return
ConcStep(c) ==
    /\ calls[c].pc # "done"
    /\ calls' = [calls EXCEPT ![c] = validateArtworkStep(calls[c])]
    /\ interleaved' = (interleaved \/ OtherUnderWay(c))
    /\ UNCHANGED <<file, pc, strategy, result, locals, fnvars, sqvars, sqconcvars>>

ConcNext == \E c \in CallIds : ConcStep(c)

ConcSpec == ConcInit /\ [][ConcNext]_vars

(***************************************************************************)
(* The Squarespace Commerce API client: SQUARESPACE_CONFIG, the            *)
(* RateLimitTracker, makeRequest and createOrder.  One client serves       *)
(* createOrder calls one after the other; a call is stepped at its awaits  *)
(* (the fetch and the sleep before a retry).                               *)
(***************************************************************************)
maxRetries == 3
retryDelay == 1000
maxRequestsPerHour == 100
windowMs == 60 * 60 * 1000

\* new SquarespaceApiError(message, status, squarespaceError, isRetryable)
SquarespaceApiError(message, status, squarespaceError, isRetryable) ==
    [name |-> "SquarespaceApiError", message |-> message, status |-> status,
     squarespaceError |-> squarespaceError, isRetryable |-> isRetryable]

Max(a, b) == IF a >= b THEN a ELSE b

\* this.requests.filter(timestamp => timestamp > windowStart) at time t
withinWindow(reqs, t) == SelectSeq(reqs, LAMBDA timestamp : timestamp > t - windowMs)

\* canMakeRequest that still admits a request when the window is full
canMakeRequest_Inclusive(reqs, t) == Len(withinWindow(reqs, t)) <= maxRequestsPerHour

\* the value canMakeRequest returns at time t
canMakeRequest(reqs, t) == Len(withinWindow(reqs, t)) < maxRequestsPerHour

\* getTimeUntilNextRequest at time t
getTimeUntilNextRequest(reqs, t) ==
    IF canMakeRequest(reqs, t) THEN 0
    ELSE LET kept == withinWindow(reqs, t)
             oldestRequest == Min({kept[i] : i \in 1..Len(kept)})
         IN Max(0, oldestRequest + windowMs - t)

\* the error makeRequest throws when the tracker refuses the request
RateLimitedError(reqs, t) ==
    SquarespaceApiError(
        "Rate limit exceeded. Try again in "
            \o ToString(MathCeil(getTimeUntilNextRequest(reqs, t), 1000)) \o " seconds.",
        429, "undefined", TRUE)

\* `skateboard-order-${Date.now()}-${Math.random().toString(36).substr(2, 9)}`
generateIdempotencyKey(t, random) == "skateboard-order-" \o ToString(t) \o "-" \o random

\* backoffDelay growing linearly with the attempt
backoffDelay_Linear(attempt) == retryDelay * attempt

\* SQUARESPACE_CONFIG.retryDelay * Math.pow(2, attempt - 1)
backoffDelay(attempt) == retryDelay * 2 ^ (attempt - 1)

\* isRetryableError that also retries client errors
isRetryableError_ClientErrors(status) == status >= 400

isRetryableError(status) == status >= 500 \/ status = 429

\* String.prototype.includes
includes(str, sub) == Occurrences(str, sub) # {}

\* err is what was thrown: isError says whether it is an instance of Error
isNetworkError(err) ==
    /\ err.isError
    /\ \/ includes(err.message, "fetch")
       \/ includes(err.message, "network")
       \/ includes(err.message, "timeout")

\* Response.ok
ok(status) == status \in 200..299

\* what a fetch can come back with: a response, or a rejection with the
\* value thrown; the body is the JSON text, which may fail to parse
NothingThrown == [isError |-> FALSE, message |-> ""]
NoBodyRead == [parses |-> FALSE, value |-> ""]
FetchResponse(status, statusText, parses, value) ==
    [kind |-> "response", status |-> status, statusText |-> statusText,
     body |-> [parses |-> parses, value |-> value], thrown |-> NothingThrown]
FetchRejection(isError, message) ==
    [kind |-> "rejects", status |-> Undefined, statusText |-> "", body |-> NoBodyRead,
     thrown |-> [isError |-> isError, message |-> message]]
NoOutcome ==
    [kind |-> "pending", status |-> Undefined, statusText |-> "", body |-> NoBodyRead,
     thrown |-> NothingThrown]

\* the SyntaxError response.json() rejects with
JsonSyntaxError == [isError |-> TRUE, message |-> "Unexpected end of JSON input"]

FetchOutcomes ==
    {FetchResponse(200, "OK", TRUE, "{id: success}"),
     FetchResponse(201, "Created", FALSE, ""),
     FetchResponse(304, "Not Modified", FALSE, ""),
     FetchResponse(400, "Bad Request", TRUE, "{type: validation_error}"),
     FetchResponse(429, "Too Many Requests", FALSE, ""),
     FetchResponse(499, "", FALSE, ""),
     FetchResponse(500, "Internal Server Error", FALSE, ""),
     FetchResponse(503, "Service Unavailable", TRUE, "{type: unavailable}"),
     FetchRejection(TRUE, "fetch failed"),
     FetchRejection(TRUE, "socket hang up"),
     FetchRejection(FALSE, "timeout")}

\* the values of Math.random().toString(36).substr(2, 9)
Randoms == {"k3j9x0q1z", "0abc12def"}

\* how late the timer of sleep() fires, in milliseconds
TimerLateness == {0, 1}

\* the clock when the client is created
FirstTime == 2 * windowMs

\* the requests the client has recorded before: n of them, one a millisecond,
\* the first at time t
Earlier(n, t) == [i \in 1..n |-> t + i - 1]

\* none; one short of the limit or at the limit, made just now; at the limit
\* and about to leave the window
EarlierRequests ==
    {<<>>}
    \cup {Earlier(n, FirstTime - n) : n \in {maxRequestsPerHour - 1, maxRequestsPerHour}}
    \cup {Earlier(n, FirstTime - windowMs + 1) :
              n \in {maxRequestsPerHour - 1, maxRequestsPerHour}}

SqInit ==
    /\ file = NoFile
    /\ pc = "idle"
    /\ strategy = "none"
    /\ result = NoResult
    /\ LocalsInit
    /\ fnInput = NoBuffer
    /\ fnOutput = NoBuffer
    /\ fnpc = "idle"
    /\ ConcIdle
    /\ SqConcIdle
    /\ now = FirstTime
    /\ requests \in EarlierRequests
    /\ call = NoCall
    /\ ordersMade = 0

\* throw e out of makeRequest; createOrder rethrows it
Throw(c, e) == [c EXCEPT !.pc = "thrown", !.error = e]

\* await this.sleep(delay); the retry follows
SleepThenRetry(c, delay) == [c EXCEPT !.pc = "sleeping", !.wakeAt = now + delay]

\* catchError that retries network errors whatever the attempt
catchError_Unbounded(c, err) ==
    IF isNetworkError(err)
    THEN SleepThenRetry(c, backoffDelay(c.attempt))
    ELSE Throw(c, SquarespaceApiError(
                      "Network error: " \o (IF err.isError THEN err.message
                                            ELSE "Unknown error"),
                      0, "undefined", FALSE))

\* the catch block of makeRequest for a thrown value that is not a
\* SquarespaceApiError
catchError(c, err) ==
    IF c.attempt <= maxRetries /\ isNetworkError(err)
    THEN SleepThenRetry(c, backoffDelay(c.attempt))
    ELSE Throw(c, SquarespaceApiError(
                      "Network error: " \o (IF err.isError THEN err.message
                                            ELSE "Unknown error"),
                      0, "undefined", FALSE))

\* what makeRequest does with the outcome o of its fetch
handleOutcome(c, o) ==
    IF o.kind = "rejects" THEN catchError(c, o.thrown)
    ELSE IF o.status = 429
    THEN IF c.attempt <= maxRetries
         THEN SleepThenRetry(c, backoffDelay(c.attempt))
         ELSE Throw(c, SquarespaceApiError("Rate limit exceeded and max retries reached",
                                           429, "undefined", FALSE))
    ELSE IF ~ok(o.status)
    THEN Throw(c, SquarespaceApiError(
                      "Squarespace API error: " \o ToString(o.status) \o " " \o o.statusText,
                      o.status,
                      IF o.body.parses THEN o.body.value ELSE "undefined",
                      isRetryableError(o.status)))
    ELSE IF o.body.parses THEN [c EXCEPT !.pc = "returned", !.response = o.body.value]
    ELSE catchError(c, JsonSyntaxError)

\* client.createOrder(orderData): makeRequest("/commerce/orders", POST) begins
CreateOrder ==
    /\ call.pc \in {"idle", "returned", "thrown"}
    /\ ordersMade < MaxOrders
    /\ call' = [NoCall EXCEPT !.pc = "enter", !.attempt = 1]
    /\ ordersMade' = ordersMade + 1
    /\ UNCHANGED <<file, pc, strategy, result, locals, fnvars, concvars, sqconcvars,
                   now, requests>>

\* makeRequest up to its await fetch: the tracker's check, the headers with a
\* new Idempotency-Key, recordRequest and the fetch
MakeRequest ==
    /\ call.pc = "enter"
    /\ IF ~canMakeRequest(requests, now)
       THEN /\ requests' = withinWindow(requests, now)
            /\ call' = Throw(call, RateLimitedError(requests, now))
       ELSE \E random \in Randoms :
               /\ requests' = Append(withinWindow(requests, now), now)
               /\ call' = [call EXCEPT
                              !.pc = "fetching",
                              !.log = Append(@, [attempt |-> call.attempt,
                                                 key |-> generateIdempotencyKey(now, random),
                                                 at |-> now,
                                                 outcome |-> NoOutcome])]
    /\ UNCHANGED <<file, pc, strategy, result, locals, fnvars, concvars, sqconcvars,
                   now, ordersMade>>

\* the fetch settles and makeRequest runs to its next await, return or throw
FetchSettles ==
    /\ call.pc = "fetching"
    /\ \E o \in FetchOutcomes :
          call' = handleOutcome([call EXCEPT !.log[Len(call.log)].outcome = o], o)
    /\ UNCHANGED <<file, pc, strategy, result, locals, fnvars, concvars, sqconcvars,
                   now, requests, ordersMade>>

\* the timer of sleep(delay) fires: return this.makeRequest(endpoint, options, attempt + 1)
Retry ==
    /\ call.pc = "sleeping"
    /\ \E late \in TimerLateness : now' = Max(now, call.wakeAt) + late
    /\ call' = [call EXCEPT !.pc = "enter", !.attempt = @ + 1]
    /\ UNCHANGED <<file, pc, strategy, result, locals, fnvars, concvars, sqconcvars,
                   requests, ordersMade>>

SqNext ==
    \/ CreateOrder
    \/ MakeRequest
    \/ FetchSettles
    \/ Retry

SqSpec == SqInit /\ [][SqNext]_vars

(***************************************************************************)
(* One Squarespace client serving several createOrder calls at once.  The  *)
(* calls share the client's RateLimitTracker and the clock; a call runs    *)
(* from one await to the next without interruption, so the tracker's check *)
(* and recordRequest() happen in one step with the fetch.                  *)
(***************************************************************************)
OrderIds == 1..MaxOrders

SqConcInit ==
    /\ file = NoFile
    /\ pc = "idle"
    /\ strategy = "none"
    /\ result = NoResult
    /\ LocalsInit
    /\ fnInput = NoBuffer
    /\ fnOutput = NoBuffer
    /\ fnpc = "idle"
    /\ ConcIdle
    /\ call = NoCall
    /\ ordersMade = 0
    /\ now = FirstTime
    /\ requests \in EarlierRequests
    /\ fetchTimes = requests
    /\ inFlight = [i \in OrderIds |-> NoCall]

\* client.createOrder(orderData), called while other calls are under way; the
\* calls are numbered in the order they are made
ClientCreateOrder(i) ==
    /\ inFlight[i].pc = "idle"
    /\ \A j \in 1..(i - 1) : inFlight[j].pc # "idle"
    /\ inFlight' = [inFlight EXCEPT ![i] = [NoCall EXCEPT !.pc = "enter", !.attempt = 1]]
    /\ UNCHANGED <<file, pc, strategy, result, locals, fnvars, concvars, sqvars, fetchTimes>>

\* makeRequest of call i up to its await fetch
ClientMakeRequest(i) ==
    /\ inFlight[i].pc = "enter"
    /\ IF ~canMakeRequest(requests, now)
       THEN /\ requests' = withinWindow(requests, now)
            /\ inFlight' = [inFlight EXCEPT ![i] = Throw(@, RateLimitedError(requests, now))]
            /\ UNCHANGED fetchTimes
       ELSE /\ requests' = Append(withinWindow(requests, now), now)
            /\ inFlight' = [inFlight EXCEPT ![i].pc = "fetching"]
            /\ fetchTimes' = Append(fetchTimes, now)
    /\ UNCHANGED <<file, pc, strategy, result, locals, fnvars, concvars, now, call,
                   ordersMade>>

\* the fetch of call i settles
ClientFetchSettles(i) ==
    /\ inFlight[i].pc = "fetching"
    /\ \E o \in FetchOutcomes : inFlight' = [inFlight EXCEPT ![i] = handleOutcome(@, o)]
    /\ UNCHANGED <<file, pc, strategy, result, locals, fnvars, concvars, sqvars, fetchTimes>>

\* the timer of call i fires, no sooner than the delay asked for
ClientRetry(i) ==
    /\ inFlight[i].pc = "sleeping"
    /\ now' = Max(now, inFlight[i].wakeAt)
    /\ inFlight' = [inFlight EXCEPT ![i].pc = "enter", ![i].attempt = @ + 1]
    /\ UNCHANGED <<file, pc, strategy, result, locals, fnvars, concvars, requests, call,
                   ordersMade, fetchTimes>>

SqConcNext ==
    \E i \in OrderIds :
        \/ ClientCreateOrder(i)
        \/ ClientMakeRequest(i)
        \/ ClientFetchSettles(i)
        \/ ClientRetry(i)

SqConcSpec == SqConcInit /\ [][SqConcNext]_vars

(***************************************************************************)
(* Properties.                                                             *)
(***************************************************************************)
Returned == pc = "done"
FnReturned == fnpc = "returned"

\* the result echoes the required thresholds 1200 / 1050 / 300
EchoesThresholds(r) ==
    /\ r.details.requiredWidth = 1200
    /\ r.details.requiredHeight = 1050
    /\ r.details.requiredResolution = 300

\* scenario A: a PNG of 400x300 pixels tagged 72 ppi
ScenarioA == file.type = "image/png" /\ file.content = RasterBuffer(400, 300, 72, "ok")

\* C1 as stated: for a PNG of 400x300 pixels tagged 72 ppi validateArtwork
\* returns valid=false, with processedFile defined and distinct from the
\* input and with the thresholds 1200 / 1050 / 300 echoed.
C1_ScenarioAInvalid ==
    (Returned /\ ScenarioA) =>
        /\ result.valid = FALSE
        /\ result.processedFile # NoFile
        /\ result.processedFile.content # file.content
        /\ EchoesThresholds(result)

\* C1 as amended: for a fully decodable PNG of 400x300 pixels tagged 72 ppi
\* validateArtwork returns valid=true (the rescaled image measures 1667x1250
\* at 300 ppi), with processedFile defined and distinct from the input and
\* with the thresholds 1200 / 1050 / 300 echoed.
C1_ScenarioAValid ==
    (Returned /\ ScenarioA) =>
        /\ result.valid = TRUE
        /\ result.details.currentWidth = 1667
        /\ result.details.currentHeight = 1250
        /\ result.details.currentResolution = 300
        /\ result.processedFile # NoFile
        /\ result.processedFile # file
        /\ result.processedFile.content # file.content
        /\ EchoesThresholds(result)

C1_Witness ==
    /\ Returned
    /\ ScenarioA
    /\ result.valid
    /\ result.processedFile.content = Buf("raster", 1667, 1250, 300, "ok", <<>>, 1)

\* C2: resizeAndChangeDPI called on a corrupt or empty buffer returns the
\* failure sentinel undefined, a value distinct from the input buffer, which
\* is what it returns when no change is needed.
C2_FailureSentinel ==
    (FnReturned /\ fnInput \in {EmptyBuffer, GarbageBuffer}) =>
        /\ fnOutput = NoBuffer
        /\ fnOutput # fnInput

\* the Normalizer could not safely transform the buffer: metadata unreadable,
\* width or height zero, or the resample / re-encode step failing
NormalizerFailed(buffer) ==
    \/ buffer.kind # "raster"
    \/ /\ buffer.density = Undefined \/ buffer.density < 300
       /\ \/ buffer.width \in {Undefined, 0}
          \/ buffer.height \in {Undefined, 0}
          \/ buffer.pixels # "ok"

\* C3: on the common-raster path, a file the Normalizer could not safely
\* transform is never reported valid.
C3_FailureIsInvalid ==
    (Returned /\ strategy = "commonRaster" /\ NormalizerFailed(file.content)) =>
        result.valid = FALSE

\* C4: on every return of validateArtwork, processedFile is set if and only
\* if the call took the common-raster path and the bytes the Normalizer
\* returned differ from the input bytes.
C4_ProcessedFileIff ==
    Returned =>
        (result.processedFile # NoFile <=>
            /\ strategy = "commonRaster"
            /\ normalizerCalled
            /\ processedBuffer # file.content)

\* an invalid result that carries the rescaled file
C4_Witness ==
    /\ Returned
    /\ result.valid = FALSE
    /\ result.processedFile # NoFile
    /\ result.processedFile.content = processedBuffer
    /\ processedBuffer # file.content

\* C5: for every image whose resolution is >= 300, resizeAndChangeDPI returns
\* the buffer it was given (no re-encoding, no metadata rewrite).
C5_CompliantUnchanged ==
    (FnReturned /\ fnInput.kind = "raster" /\ fnInput.density >= 300) =>
        fnOutput = fnInput

C5_Witness ==
    /\ FnReturned
    /\ fnInput.kind = "raster"
    /\ fnInput.density = 300
    /\ fnInput.width = 400
    /\ fnOutput = fnInput

\* an image of positive width and height tagged with a resolution below 300
LowResolutionImage(buffer) ==
    /\ buffer.kind = "raster"
    /\ buffer.width > 0
    /\ buffer.height > 0
    /\ buffer.density # Undefined
    /\ buffer.density < 300

\* the buffer `out` is a new buffer of resolution 300 holding the image of
\* buffer `in` scaled by 300 / r
RescaledFrom(out, in, r) ==
    /\ out # in
    /\ out.kind = "raster"
    /\ out.density = 300
    /\ out.width = (2 * in.width * 300 + r) \div (2 * r)
    /\ out.height = (2 * in.height * 300 + r) \div (2 * r)

C7_DefaultDPI ==
    (FnReturned /\ fnInput.kind = "raster" /\ fnInput.density = Undefined) =>
        LET tagged == [fnInput EXCEPT !.density = 96]
        IN /\ (fnOutput = fnInput) <=> (resizeAndChangeDPI(tagged) = tagged)
           /\ (fnOutput # fnInput) => (fnOutput = resizeAndChangeDPI(tagged))
           /\ (fnInput.width > 0 /\ fnInput.height > 0 /\ fnInput.pixels = "ok") =>
                  RescaledFrom(fnOutput, fnInput, 96)

\* 400x300 without resolution metadata becomes 1250x938 at 300 ppi
C7_Witness ==
    /\ FnReturned
    /\ fnInput = RasterBuffer(400, 300, Undefined, "ok")
    /\ fnOutput.width = 1250
    /\ fnOutput.height = 938
    /\ fnOutput.density = 300

Classified == pc # "start"

\* the filename ends, case-insensitively, in one of the raster extensions
RasterExtension(name) ==
    \E ext \in {".jpg", ".jpeg", ".png", ".webp", ".tiff", ".tif"} :
        endsWith(toLowerCase(name), ext)

\* C8 as stated: every file that is not classified document or legacyRaster
\* and whose media type starts with "image/", or whose filename ends in a
\* raster extension, is handled on the common-raster path.
C8_AnyImageTypeIsCommonRaster ==
    (/\ Classified
     /\ strategy \notin {"document", "legacyRaster"}
     /\ startsWith(file.type, "image/") \/ RasterExtension(file.name)) =>
        strategy = "commonRaster"

\* C8 as amended: every file that is not classified document or legacyRaster
\* and whose media type is image/jpeg, image/png, image/webp or image/tiff,
\* or whose filename ends in a raster extension, is handled on the
\* common-raster path; a file of any other image/* type whose filename has
\* no raster extension is rejected.
C8_ListedImageTypeIsCommonRaster ==
    Classified =>
        /\ (/\ strategy \notin {"document", "legacyRaster"}
            /\ \/ file.type \in {"image/jpeg", "image/png", "image/webp", "image/tiff"}
               \/ RasterExtension(file.name)) =>
               strategy = "commonRaster"
        /\ (/\ startsWith(file.type, "image/")
            /\ file.type \notin {"image/jpeg", "image/png", "image/webp", "image/tiff",
                                 "image/vnd.adobe.photoshop"}
            /\ ~RasterExtension(file.name)) =>
               strategy = "rejected"

\* a text/plain upload named A.PNG has reached the image handler's check
C8_Witness ==
    /\ pc = "check"
    /\ file.type = "text/plain"
    /\ file.name = "A.PNG"
    /\ strategy = "commonRaster"

\* C9 as stated: the file is handled on the document path if and only if its
\* media type is application/pdf, or its media type is application/postscript
\* and its filename ends in .ai.
C9_DocumentIffPdfOrAi ==
    Classified =>
        (strategy = "document" <=>
            \/ file.type = "application/pdf"
            \/ /\ file.type = "application/postscript"
               /\ endsWith(toLowerCase(file.name), ".ai"))

\* C9 as amended: the file is handled on the document path if and only if its
\* media type is application/pdf or application/illustrator, or its media
\* type is application/postscript and its filename ends, case-insensitively,
\* in .ai.
C9_DocumentIffPdfIllustratorOrAi ==
    Classified =>
        (strategy = "document" <=>
            \/ file.type = "application/pdf"
            \/ file.type = "application/illustrator"
            \/ /\ file.type = "application/postscript"
               /\ endsWith(toLowerCase(file.name), ".ai"))

\* an application/illustrator upload has been parsed by the document handler
C9_Witness ==
    /\ pc = "documentLoaded"
    /\ file.type = "application/illustrator"
    /\ strategy = "document"
    /\ pdfDoc = file.content

\* the positions of the call that belong to each handler
HandlerSteps(s) ==
    IF s = "document" THEN {"document", "documentLoaded", "done"}
    ELSE IF s = "legacyRaster" THEN {"legacyRaster", "legacyRasterRead", "done"}
    ELSE IF s = "commonRaster" THEN {"commonRaster", "normalize", "reread", "check", "done"}
    ELSE IF s = "rejected" THEN {"rejected", "done"}
    ELSE {"start"}

\* C10: each (media type, filename) pair is handled by exactly one of the four
\* strategies, chosen in the order document, legacyRaster, commonRaster,
\* rejected: application/pdf is document and image/vnd.adobe.photoshop is
\* legacyRaster whatever the filename, application/postscript named x.ai is
\* document, image/png is commonRaster, and text/plain with a non-raster
\* filename is rejected.
C10_ClassifierOrderAndTotality ==
    /\ pc \in HandlerSteps(strategy)
    /\ pdfDoc # NoBuffer => strategy = "document"
    /\ normalizerCalled => strategy = "commonRaster"
    /\ Classified =>
        /\ strategy \in {"document", "legacyRaster", "commonRaster", "rejected"}
        /\ file.type = "application/pdf" => strategy = "document"
        /\ file.type = "image/vnd.adobe.photoshop" => strategy = "legacyRaster"
        /\ (file.type = "application/postscript" /\ file.name = "x.ai") =>
               strategy = "document"
        /\ file.type = "image/png" => strategy = "commonRaster"
        /\ (file.type = "text/plain" /\ ~RasterExtension(file.name)) =>
               strategy = "rejected"

\* a Photoshop upload named a.png has been read by the PSD handler
C10_Witness ==
    /\ pc = "legacyRasterRead"
    /\ file.type = "image/vnd.adobe.photoshop"
    /\ file.name = "a.png"
    /\ strategy = "legacyRaster"

\* the result reports no current width, height or resolution
NoCurrentDimensions(r) ==
    /\ r.details.currentWidth = Undefined
    /\ r.details.currentHeight = Undefined
    /\ r.details.currentResolution = Undefined

\* C11: for every file the classifier rejects, validateArtwork returns
\* valid=false without reading or decoding the file's bytes, and the result
\* carries no currentWidth, currentHeight or currentResolution and no
\* processedFile.
C11_UnsupportedFormat ==
    (Returned /\ strategy = "rejected") =>
        /\ result.valid = FALSE
        /\ result.message \in {"Invalid file format.", "Unsupported file format."}
        /\ bytesRead = FALSE
        /\ pdfDoc = NoBuffer
        /\ metadata = NoMetadata
        /\ normalizerCalled = FALSE
        /\ processedBuffer = NoBuffer
        /\ NoCurrentDimensions(result)
        /\ result.processedFile = NoFile

\* an image/gif upload holding a decodable 1600x1400 image has been rejected
C11_Witness ==
    /\ Returned
    /\ strategy = "rejected"
    /\ file.type = "image/gif"
    /\ file.content = RasterBuffer(1600, 1400, 300, "ok")
    /\ result.message = "Invalid file format."

\* the PDF parser or the image decoder fails on the file, on the path taken
DecoderFails(f, s) ==
    \/ s = "document" /\ f.content.kind # "pdf"
    \/ s \in {"legacyRaster", "commonRaster"} /\ f.content.kind # "raster"
    \/ /\ s = "commonRaster"
       /\ f.content.kind = "raster"
       /\ f.content.density < 300
       /\ f.content.width > 0
       /\ f.content.height > 0
       /\ f.content.pixels = "damaged"

\* C12: validateArtwork never throws to its caller: for every input and every
\* failure of the PDF parser or the image decoder on any path it returns a
\* ValidationResult with valid=false, and a failure not handled inside a path
\* comes back as the result with message "Error processing file.".
C12_NeverThrowsFailureInvalid ==
    /\ pc # "threw"
    /\ (Returned /\ DecoderFails(file, strategy)) =>
           /\ result.valid = FALSE
           /\ strategy \in {"document", "legacyRaster"} =>
                  result.message = "Error processing file."

HasSuggestion(r, text) ==
    \E i \in 1..Len(r.details.suggestions) : r.details.suggestions[i] = text

\* C13: a PSD with readable dimensions is valid if and only if its width is
\* >= 1200, its height is >= 1050 and its resolution metadata equals exactly
\* 300; a PSD of sufficient size whose resolution is 96, is above 300 or is
\* absent is invalid with a resolution-issue suggestion.
C13_PsdExactResolution ==
    (/\ Returned
     /\ strategy = "legacyRaster"
     /\ file.content.kind = "raster"
     /\ file.content.width > 0
     /\ file.content.height > 0) =>
        /\ result.valid <=>
               /\ file.content.width >= 1200
               /\ file.content.height >= 1050
               /\ file.content.density = 300
        /\ (/\ file.content.width >= 1200
            /\ file.content.height >= 1050
            /\ file.content.density # 300) =>
               /\ result.valid = FALSE
               /\ HasSuggestion(result, "Required resolution: 300 DPI")
               /\ HasSuggestion(result,
                      "In Photoshop, go to Image > Image Size and set resolution to 300 DPI")

\* a 1200x1050 PSD tagged 350 ppi has been found invalid
C13_Witness ==
    /\ Returned
    /\ strategy = "legacyRaster"
    /\ file.content = RasterBuffer(1200, 1050, 350, "ok")
    /\ result.valid = FALSE
    /\ result.details.suggestions[1] = "Current resolution: 350 DPI"

\* scenario B: a JPEG of 1600x1400 pixels tagged 300 ppi
ScenarioB == file.type = "image/jpeg" /\ file.content = RasterBuffer(1600, 1400, 300, "ok")

\* C14: on the common-raster path, with (w, h, r) the metadata re-read from
\* the buffer the Normalizer returned, the result is valid if and only if
\* w >= 1200, h >= 1050 and r is absent or r >= 300; a 1600x1400 JPEG tagged
\* 300 ppi is valid with processedFile undefined.
C14_CommonRasterValidity ==
    (Returned /\ strategy = "commonRaster") =>
        /\ metadata # NoMetadata => metadata = Metadata(processedBuffer)
        /\ result.valid <=>
               /\ metadata.width >= 1200
               /\ metadata.height >= 1050
               /\ metadata.density = Undefined \/ metadata.density >= 300
        /\ ScenarioB => (result.valid /\ result.processedFile = NoFile)

C14_Witness ==
    /\ Returned
    /\ ScenarioB
    /\ result.valid
    /\ result.processedFile = NoFile
    /\ metadata = [width |-> 1600, height |-> 1400, density |-> 300]

\* the first page of the parsed document is w x h points
FirstPageIs(f, w, h) ==
    /\ f.content.kind = "pdf"
    /\ Len(f.content.pages) > 0
    /\ f.content.pages[1] = <<w, h>>

\* C15: on the document path a first page of w x h points measures
\* round(w/72*300) x round(h/72*300) pixels, the result is valid if and only
\* if the measured width is >= 1200 and the measured height is >= 1050, a
\* page of 864x756 points measures 3600x3150 and is valid, and no resolution
\* is reported.
C15_DocumentValidity ==
    (/\ Returned
     /\ strategy = "document"
     /\ file.content.kind = "pdf"
     /\ Len(file.content.pages) > 0
     /\ file.content.pages[1] # NoPage) =>
        LET w == file.content.pages[1][1]
            h == file.content.pages[1][2]
            measuredWidth == (2 * w * 300 + 72) \div (2 * 72)
            measuredHeight == (2 * h * 300 + 72) \div (2 * 72)
        IN /\ result.details.currentWidth = measuredWidth
           /\ result.details.currentHeight = measuredHeight
           /\ result.details.currentResolution = Undefined
           /\ result.valid <=> (measuredWidth >= 1200 /\ measuredHeight >= 1050)
           /\ FirstPageIs(file, 864, 756) =>
                  /\ result.details.currentWidth = 3600
                  /\ result.details.currentHeight = 3150
                  /\ result.valid

C15_Witness ==
    /\ Returned
    /\ strategy = "document"
    /\ FirstPageIs(file, 864, 756)
    /\ result.valid
    /\ result.details.currentWidth = 3600
    /\ result.details.currentHeight = 3150

\* C17: validateArtwork never modifies the uploaded file's bytes, media type
\* or name on any path: a rescaled raster is a new buffer, separate from the
\* upload, and the document and legacy-raster paths transform no bytes.
C17_InputReadOnly ==
    [][/\ file' = file
       /\ processedFile' # NoFile =>
              /\ processedFile'.content # file.content
              /\ processedFile'.content.gen > file.content.gen
       /\ strategy' \in {"document", "legacyRaster"} =>
              /\ normalizerCalled' = FALSE
              /\ processedBuffer' = NoBuffer
              /\ processedFile' = NoFile
              /\ result'.processedFile = NoFile]_vars

\* a 72 ppi upload has been rescaled into a processed file and returned
C17_Witness ==
    /\ Returned
    /\ strategy = "commonRaster"
    /\ file.content = RasterBuffer(400, 350, 72, "ok")
    /\ result.processedFile # NoFile
    /\ result.processedFile.content.width = 1667
    /\ file.content.width = 400

\* C18: a parsed document with zero pages yields valid=false with message
\* "Document has no pages."; one whose first page cannot be read yields
\* valid=false with message "Could not read first page."; in both cases the
\* size check is not evaluated and no current dimensions are reported.
C18_NoPagesOrUnreadablePage ==
    (Returned /\ strategy = "document" /\ file.content.kind = "pdf") =>
        /\ Len(file.content.pages) = 0 =>
               /\ result.valid = FALSE
               /\ result.message = "Document has no pages."
               /\ NoCurrentDimensions(result)
        /\ (Len(file.content.pages) > 0 /\ file.content.pages[1] = NoPage) =>
               /\ result.valid = FALSE
               /\ result.message = "Could not read first page."
               /\ NoCurrentDimensions(result)

\* a document whose first page is unreadable and whose second page is large
\* enough has been refused
C18_Witness ==
    /\ Returned
    /\ strategy = "document"
    /\ file.content = PdfBuffer(<<NoPage, <<864, 756>> >>)
    /\ result.message = "Could not read first page."

RECURSIVE RunAlone(_)
\* the call st run to its return with no other call in flight
RunAlone(st) == IF st.pc = "done" THEN st ELSE RunAlone(validateArtworkStep(st))

\* every step Spec takes is the step validateArtworkStep takes on the record
StepOfRecordIsStepOfCall == [][ThisCall' = validateArtworkStep(ThisCall)]_vars

OrderSettled == call.pc \in {"returned", "thrown"}

\* the i-th fetch of the call came back with a response of status 429
RateLimitedAt(i) ==
    /\ i \in 1..Len(call.log)
    /\ call.log[i].outcome.kind = "response"
    /\ call.log[i].outcome.status = 429

\* the fetch after the i-th was made as the next attempt, no sooner than
\* 1000 * 2^(n-1) ms after the i-th, n being the attempt of the i-th
ReissuedAfter(i) ==
    /\ Len(call.log) > i
    /\ call.log[i + 1].attempt = call.log[i].attempt + 1
    /\ call.log[i + 1].at >= call.log[i].at + 1000 * 2 ^ (call.log[i].attempt - 1)

\* the call is waiting 1000 * 2^(n-1) ms after its i-th fetch, or has waited
\* and is entering makeRequest as the next attempt
WaitingToReissue(i) ==
    /\ Len(call.log) = i
    /\ \/ /\ call.pc = "sleeping"
          /\ call.attempt = call.log[i].attempt
          /\ call.wakeAt = call.log[i].at + 1000 * 2 ^ (call.log[i].attempt - 1)
       \/ /\ call.pc = "enter"
          /\ call.attempt = call.log[i].attempt + 1
          /\ now >= call.log[i].at + 1000 * 2 ^ (call.log[i].attempt - 1)

\* the retry after the i-th fetch was refused by the client's own tracker
RefusedByTracker(i) ==
    /\ Len(call.log) = i
    /\ call.pc = "thrown"
    /\ call.error.status = 429
    /\ call.error.isRetryable
    /\ Len(requests) >= 100

\* a 429 followed by a success: exactly two fetches and the successful body
RateLimitedThenSuccess ==
    (/\ OrderSettled
     /\ RateLimitedAt(1)
     /\ Len(call.log) >= 2
     /\ call.log[2].outcome.kind = "response"
     /\ call.log[2].outcome.status \in 200..299
     /\ call.log[2].outcome.body.parses) =>
        /\ Len(call.log) = 2
        /\ call.pc = "returned"
        /\ call.response = call.log[2].outcome.body.value

\* a 429 on the fourth attempt throws SquarespaceApiError with status 429
RateLimitedOnFourth ==
    (RateLimitedAt(4) /\ call.log[4].attempt = 4) =>
        /\ Len(call.log) = 4
        /\ call.pc = "thrown"
        /\ call.error.name = "SquarespaceApiError"
        /\ call.error.status = 429

\* C19 as stated: a 429 on attempt n <= 3 makes the client wait
\* 1000 * 2^(n-1) ms and then re-issue the request as attempt n+1; a 429
\* followed by a success makes createOrder perform exactly two fetch calls
\* and return the successful body; a 429 on the fourth attempt throws
\* SquarespaceApiError with status 429.
C19_RateLimitedAlwaysReissued ==
    /\ \A i \in 1..3 :
          (RateLimitedAt(i) /\ call.log[i].attempt = i) =>
              ReissuedAfter(i) \/ WaitingToReissue(i)
    /\ RateLimitedThenSuccess
    /\ RateLimitedOnFourth

\* C19, amended: a 429 on attempt n <= 3 makes the client wait
\* 1000 * 2^(n-1) ms and then enter makeRequest as attempt n+1, which
\* re-issues the request unless the client's own rate-limit tracker refuses
\* it (then createOrder throws SquarespaceApiError with status 429 and
\* isRetryable true); a 429 followed by a success makes createOrder perform
\* exactly two fetch calls and return the successful body; a 429 on the
\* fourth attempt throws SquarespaceApiError with status 429.
C19_RateLimitedReissuedUnlessRefused ==
    /\ \A i \in 1..3 :
          (RateLimitedAt(i) /\ call.log[i].attempt = i) =>
              ReissuedAfter(i) \/ WaitingToReissue(i) \/ RefusedByTracker(i)
    /\ RateLimitedThenSuccess
    /\ RateLimitedOnFourth

\* createOrder has returned the body of its fourth fetch after three 429s
C19_Witness ==
    /\ call.pc = "returned"
    /\ Len(call.log) = 4
    /\ \A i \in 1..3 : RateLimitedAt(i)
    /\ call.log[4].outcome.status = 200
    /\ call.log[4].at - call.log[1].at >= 7000
    /\ call.response = "{id: success}"

\* the i-th fetch came back with a non-OK response other than 429
ErrorResponseAt(i) ==
    /\ i \in 1..Len(call.log)
    /\ call.log[i].outcome.kind = "response"
    /\ call.log[i].outcome.status \notin 200..299
    /\ call.log[i].outcome.status # 429

\* C20: a non-OK response with a status other than 429 makes createOrder
\* reject with a SquarespaceApiError carrying that status, with isRetryable
\* true exactly when the status is >= 500, and without another fetch: exactly
\* one fetch call when it is the first response.
C20_ErrorResponseNotRetried ==
    \A i \in 1..Len(call.log) :
        ErrorResponseAt(i) =>
            /\ Len(call.log) = i
            /\ call.pc = "thrown"
            /\ call.error.name = "SquarespaceApiError"
            /\ call.error.status = call.log[i].outcome.status
            /\ call.error.isRetryable <=> (call.log[i].outcome.status >= 500)

\* createOrder has rejected after one fetch that came back 503
C20_Witness ==
    /\ call.pc = "thrown"
    /\ Len(call.log) = 1
    /\ call.log[1].outcome.status = 503
    /\ call.error.status = 503
    /\ call.error.isRetryable

\* the position of text in the suggestions of r, 0 when it is not among them
SuggestionIndex(r, text) ==
    IF HasSuggestion(r, text)
    THEN CHOOSE i \in 1..Len(r.details.suggestions) : r.details.suggestions[i] = text
    ELSE 0

\* the checks of the legacy-raster and common-raster handlers were reached:
\* the metadata was read and holds a width and a height
ChecksReached ==
    /\ Returned
    /\ strategy \in {"legacyRaster", "commonRaster"}
    /\ metadata.width > 0
    /\ metadata.height > 0

\* the resolution check of the path taken fails
ResolutionCheckFails ==
    IF strategy = "legacyRaster" THEN metadata.density # 300
    ELSE metadata.density # Undefined /\ metadata.density < 300

\* C21: on the legacy-raster and common-raster paths the size check and the
\* resolution check are both evaluated whenever the checks are reached: the
\* suggestions of an invalid result hold the size-issue group exactly when
\* width or height is short and the resolution-issue group exactly when the
\* resolution check fails, the size group first when both are present.
C21_IssuesAccumulate ==
    ChecksReached =>
        LET short == metadata.width < 1200 \/ metadata.height < 1050
            sizeAt == SuggestionIndex(result, "Required minimum size: 1200x1050px")
            resolutionAt == SuggestionIndex(result, "Required resolution: 300 DPI")
        IN /\ result.valid <=> (~short /\ ~ResolutionCheckFails)
           /\ result.valid = FALSE =>
                  /\ sizeAt # 0 <=> short
                  /\ resolutionAt # 0 <=> ResolutionCheckFails
                  /\ (short /\ ResolutionCheckFails) => (sizeAt = 2 /\ resolutionAt = 5)
                  /\ Len(result.details.suggestions) =
                         (IF short THEN 3 ELSE 0) + (IF ResolutionCheckFails THEN 3 ELSE 0)

\* a PSD that is both too small and tagged 96 ppi has been refused with both
\* groups
C21_Witness ==
    /\ ChecksReached
    /\ strategy = "legacyRaster"
    /\ file.content = RasterBuffer(800, 700, 96, "ok")
    /\ Len(result.details.suggestions) = 6
    /\ result.details.suggestions[4] = "Current resolution: 96 DPI"

RECURSIVE LeadingDigits(_)
\* the number of decimal digits text begins with
LeadingDigits(text) ==
    IF Len(text) = 0 \/ IndexIn(CharAt(text, 1), "0123456789") = 0 THEN 0
    ELSE 1 + LeadingDigits(SubSeq(text, 2, Len(text)))

RECURSIVE DigitsValue(_, _)
\* acc followed by the decimal digits text begins with, as a number
DigitsValue(text, acc) ==
    IF Len(text) = 0 \/ IndexIn(CharAt(text, 1), "0123456789") = 0 THEN acc
    ELSE DigitsValue(SubSeq(text, 2, Len(text)),
                     10 * acc + IndexIn(CharAt(text, 1), "0123456789") - 1)

\* the number written in text right after prefix
NumberAfter(text, prefix) == DigitsValue(SubSeq(text, Len(prefix) + 1, Len(text)), 0)

\* the number written in text after prefix, a first number and an "x"
SecondNumberAfter(text, prefix) ==
    LET rest == SubSeq(text, Len(prefix) + 1, Len(text))
    IN DigitsValue(SubSeq(rest, LeadingDigits(rest) + 2, Len(rest)), 0)

\* C22: whenever the final dimensions w x h of a common-raster file fall
\* short of 1200x1050, the target size the result suggests is
\* ceil(w*s) x ceil(h*s), s = max(1200/w, 1050/h), and has width >= 1200 and
\* height >= 1050.
C22_SizeSuggestionSufficient ==
    (/\ ChecksReached
     /\ strategy = "commonRaster"
     /\ metadata.width < 1200 \/ metadata.height < 1050) =>
        LET w == metadata.width
            h == metadata.height
            text == result.details.suggestions[3]
            prefix == "Try resizing your image to "
            suggestedWidth == NumberAfter(text, prefix)
            suggestedHeight == SecondNumberAfter(text, prefix)
            byWidth == 1200 * h >= 1050 * w
        IN /\ startsWith(text, prefix)
           /\ suggestedWidth = (IF byWidth THEN (w * 1200 + w - 1) \div w
                                ELSE (w * 1050 + h - 1) \div h)
           /\ suggestedHeight = (IF byWidth THEN (h * 1200 + w - 1) \div w
                                 ELSE (h * 1050 + h - 1) \div h)
           /\ suggestedWidth >= 1200
           /\ suggestedHeight >= 1050

\* an 803x702 image, rescaled from 800x700 at 299 ppi, has been refused with
\* the suggestion to resize it to 1202x1050
C22_Witness ==
    /\ ChecksReached
    /\ strategy = "commonRaster"
    /\ file.content = RasterBuffer(800, 700, 299, "ok")
    /\ metadata.width = 803
    /\ metadata.height = 702
    /\ result.details.suggestions[3] =
           "Try resizing your image to 1202x1050px to meet the minimum requirements."

\* the percentage the size suggestion of a document or PSD result names
SuggestedPercent ==
    NumberAfter(result.details.suggestions[3],
                IF strategy = "document" THEN "Try scaling your artwork by "
                ELSE "Try increasing the canvas size by ")

\* the result is a document or PSD result whose measured size is short
MeasuredSizeShort ==
    /\ Returned
    /\ strategy \in {"document", "legacyRaster"}
    /\ result.details.currentWidth > 0
    /\ result.details.currentHeight > 0
    /\ \/ result.details.currentWidth < 1200
       \/ result.details.currentHeight < 1050

\* C24: whenever the measured size w x h falls short of 1200x1050 on the
\* document or legacy-raster path, the suggested percentage p satisfies
\* w*p/100 >= 1200 and h*p/100 >= 1050.
C24_PercentSuggestionSufficient ==
    MeasuredSizeShort =>
        /\ result.details.currentWidth * SuggestedPercent >= 1200 * 100
        /\ result.details.currentHeight * SuggestedPercent >= 1050 * 100

NormalizerSucceeded ==
    /\ normalizerCalled
    /\ \/ wasProcessed
       \/ file.content.density # Undefined /\ file.content.density >= 300

\* the Normalizer was called and did neither
NormalizerGaveUp == normalizerCalled /\ ~NormalizerSucceeded

\* the re-read resolution after a successful normalization is present and
\* >= 300, and a resolution-issue suggestion is reported only for files on
\* which the Normalizer failed
NoResolutionIssueAfterSuccess ==
    (Returned /\ strategy = "commonRaster") =>
        /\ NormalizerSucceeded => (metadata.density # Undefined /\ metadata.density >= 300)
        /\ HasSuggestion(result, "Required resolution: 300 DPI") => NormalizerGaveUp

\* the suggestions of the result are the size-issue group and nothing else
SizeIssueOnly ==
    /\ Len(result.details.suggestions) = 3
    /\ result.details.suggestions[2] = "Required minimum size: 1200x1050px"

\* C26 as stated: after a successful normalization the re-read resolution is
\* present and >= 300, so a resolution-issue suggestion is reported only for
\* files on which the Normalizer failed, and every other invalid
\* common-raster result is a size issue only.
C26_OtherInvalidResultsAreSizeIssues ==
    /\ NoResolutionIssueAfterSuccess
    /\ (Returned /\ strategy = "commonRaster" /\ result.valid = FALSE /\ ~NormalizerGaveUp) =>
           SizeIssueOnly

\* C26, amended: after a successful normalization the re-read resolution is
\* present and >= 300, so a resolution-issue suggestion is reported only for
\* files on which the Normalizer failed, and every other invalid
\* common-raster result that reached the checks is a size issue only; the
\* remaining ones are the results returned before the checks, "Error
\* processing image file." and "Could not read image dimensions.".
C26_OtherCheckedResultsAreSizeIssues ==
    /\ NoResolutionIssueAfterSuccess
    /\ (Returned /\ strategy = "commonRaster" /\ result.valid = FALSE /\ ~NormalizerGaveUp) =>
           IF ChecksReached THEN SizeIssueOnly
           ELSE result.message \in {"Error processing image file.",
                                    "Could not read image dimensions."}

\* an image rescaled to 803x702 at 300 ppi has been refused for its size alone
C26_Witness ==
    /\ Returned
    /\ strategy = "commonRaster"
    /\ wasProcessed
    /\ metadata = [width |-> 803, height |-> 702, density |-> 300]
    /\ result.valid = FALSE
    /\ SizeIssueOnly

\* C27: resizeAndChangeDPI applied to a buffer it has rescaled returns that
\* buffer unchanged, and validateArtwork applied to a processedFile it has
\* returned produces no further processedFile and reports the same
\* dimensions.
C27_NormalizerIdempotent ==
    /\ (normalizerCalled /\ wasProcessed) =>
           /\ processedBuffer # file.content
           /\ resizeAndChangeDPI(processedBuffer) = processedBuffer
    /\ (Returned /\ result.processedFile # NoFile) =>
           LET again == RunAlone(NewCall(result.processedFile))
           IN /\ again.strategy = "commonRaster"
              /\ again.normalizerCalled
              /\ again.wasProcessed = FALSE
              /\ again.result.processedFile = NoFile
              /\ again.result.details.currentWidth = result.details.currentWidth
              /\ again.result.details.currentHeight = result.details.currentHeight
              /\ again.result.valid = result.valid

\* a 400x350 image tagged 96 ppi has come back as a 1250x1094 processed file
C27_Witness ==
    /\ Returned
    /\ file.content = RasterBuffer(400, 350, 96, "ok")
    /\ result.processedFile # NoFile
    /\ result.processedFile.content.width = 1250
    /\ result.processedFile.content.height = 1094
    /\ resizeAndChangeDPI(result.processedFile.content) = result.processedFile.content

\* the uploaded file with its image tagged r ppi: same name, media type and
\* pixel dimensions
Retagged(f, r) ==
    File(f.type, f.name, RasterBuffer(f.content.width, f.content.height, r, f.content.pixels))

\* C28: for two common-raster inputs with the same pixel dimensions, if the
\* one tagged R1 < 300 is valid then the one tagged any R2 with 0 < R2 <= R1
\* is valid too, validity being decided on the rescaled size
\* round(W*300/R) x round(H*300/R).
C28_MonotoneInResolution ==
    (/\ Returned
     /\ strategy = "commonRaster"
     /\ result.valid
     /\ file.content.density # Undefined
     /\ file.content.density < 300) =>
        /\ result.details.currentWidth =
               (2 * file.content.width * 300 + file.content.density)
                   \div (2 * file.content.density)
        /\ result.details.currentHeight =
               (2 * file.content.height * 300 + file.content.density)
                   \div (2 * file.content.density)
        /\ \A r2 \in Densities :
               (0 < r2 /\ r2 <= file.content.density) =>
                   RunAlone(NewCall(Retagged(file, r2))).result.valid

\* a 400x350 image is valid tagged 96 ppi, and tagged 72 ppi, and is not
\* tagged 150 ppi
C28_Witness ==
    /\ Returned
    /\ strategy = "commonRaster"
    /\ file.content = RasterBuffer(400, 350, 96, "ok")
    /\ result.valid
    /\ RunAlone(NewCall(Retagged(file, 72))).result.valid
    /\ RunAlone(NewCall(Retagged(file, 150))).result.valid = FALSE

\* an upper bound on the steps the call c has left: three for each attempt
\* it may still make (enter, fetch, sleep), none once it has settled
StepsLeft(c) ==
    CASE c.pc = "enter" -> 3 * (4 - c.attempt) + 3
      [] c.pc = "fetching" -> 3 * (4 - c.attempt) + 2
      [] c.pc = "sleeping" -> 3 * (4 - c.attempt) + 1
      [] OTHER -> 0

\* C23: every createOrder call returns or throws after at most 4 fetch
\* calls, for every mix of 429 responses and retryable network errors: both
\* retry branches advance the one attempt counter, which never exceeds 4, and
\* every step of a call brings it closer to its return or throw.
C23_BoundedRetries ==
    [][/\ Len(call'.log) <= 4
       /\ call'.attempt <= 4
       /\ call'.pc = "sleeping" => call'.attempt <= 3
       /\ ordersMade' = ordersMade =>
              (StepsLeft(call') < StepsLeft(call) /\ StepsLeft(call') >= 0)]_vars

\* createOrder has thrown after four fetches, rate limited on the first and
\* third and failing on the network on the second and fourth
C23_Witness ==
    /\ call.pc = "thrown"
    /\ Len(call.log) = 4
    /\ RateLimitedAt(1)
    /\ call.log[2].outcome.kind = "rejects"
    /\ RateLimitedAt(3)
    /\ call.log[4].outcome.kind = "rejects"
    /\ call.error.status = 0
    /\ call.error.message = "Network error: fetch failed"

\* C29: all fetch attempts made by one createOrder call, the first and each
\* retry after a 429 or a network error, carry the same Idempotency-Key.
C29_SameKeyOnEveryAttempt ==
    \A i, j \in 1..Len(call.log) : call.log[i].key = call.log[j].key

\* the fetch calls of the client so far are in the order they were made
FetchesInOrder ==
    \A k \in 1..(Len(fetchTimes) - 1) : fetchTimes[k] <= fetchTimes[k + 1]

\* no window of windowMs consecutive milliseconds holds more than
\* maxRequestsPerHour fetch calls: the fetch made maxRequestsPerHour fetches
\* after another one is at least windowMs later
AtMostMaxRequestsPerWindow ==
    \A k \in 1..(Len(fetchTimes) - maxRequestsPerHour) :
        fetchTimes[k + maxRequestsPerHour] - fetchTimes[k] >= windowMs

\* the tracker of the client refuses the next request
WindowFull == Len(withinWindow(requests, now)) >= maxRequestsPerHour

\* the call c has been refused by the tracker
Refused(c) ==
    /\ c.pc = "thrown"
    /\ c.error.name = "SquarespaceApiError"
    /\ c.error.status = 429
    /\ c.error.isRetryable

\* C30: one client never issues more than 100 fetch calls within any window
\* of one hour (3,600,000 consecutive milliseconds), however its concurrent
\* createOrder calls interleave: every fetch, retries included, is in the
\* tracker's list when it is made, and a makeRequest entered while 100
\* attempts lie within the window throws SquarespaceApiError with status
\* 429 and isRetryable true without a fetch.
C30_ClientSideRateLimit ==
    /\ [](/\ FetchesInOrder
          /\ AtMostMaxRequestsPerWindow
          /\ withinWindow(fetchTimes, now) = withinWindow(requests, now))
    /\ [][/\ fetchTimes' # fetchTimes =>
                 /\ ~WindowFull
                 /\ fetchTimes' = Append(fetchTimes, now)
                 /\ requests'[Len(requests')] = now
          /\ \A i \in OrderIds :
                 (inFlight[i].pc = "enter" /\ inFlight'[i] # inFlight[i] /\ WindowFull) =>
                     (Refused(inFlight'[i]) /\ fetchTimes' = fetchTimes)]_vars

\* one call is refused without a fetch while the fetch of another call, the
\* hundredth of the window, is still under way
C30_Witness ==
    \E i, j \in OrderIds :
        /\ inFlight[i].pc = "fetching"
        /\ Refused(inFlight[j])
        /\ Len(withinWindow(fetchTimes, now)) = maxRequestsPerHour
        /\ fetchTimes[Len(fetchTimes)] = now

=============================================================================
